---- MODULE Spec2Model ----
(***************************************************************************)
(* The API gateway (REST in, gRPC out) of the distributed chat system and  *)
(* the two workers it calls.  The gateway source is the listing in         *)
(* src/screenshots/README.md (lines 416-1112); the workers are             *)
(* src/translation-service/server.js and src/audio-service/server.js.      *)
(*                                                                         *)
(* JavaScript strings are sequences of one-character strings, so that      *)
(* toLowerCase, trim, split and byte lengths are computed, not assumed.    *)
(* The JavaScript value undefined is the one-element sequence `undefined`  *)
(* (no real string has a character of that name).                          *)
(***************************************************************************)
EXTENDS Integers, Sequences, FiniteSets, TLC

VARIABLES userLanguages, chatHistory, performanceMetrics, pending,
          workerCalls, out, now, nextReq

vars == <<userLanguages, chatHistory, performanceMetrics, pending,
          workerCalls, out, now, nextReq>>

-----------------------------------------------------------------------------
(* Bounds of the model *)

\* Requests the clients issue in one behaviour of Spec.
MaxReqs == 2
\* Requests the clients issue in one behaviour of SpecLang.
MaxLangReqs == 3
\* Requests the clients issue in one behaviour of SpecClock.
MaxClockReqs == 2
\* Calls of one concurrent batch.
MaxBatch == 1
\* Largest reading of the millisecond clock.
MaxClock == 1
\* Requests the clients issue in one behaviour of SpecSize.
MaxSizeReqs == 2
\* Largest of the small uploads of SpecSize.
MaxAudioBytes == 4
\* Requests the clients issue in one behaviour of SpecHistory.
MaxHistReqs == 4
\* Largest limit of a GetHistory request of SpecHistory.
MaxLimit == 2
\* Requests the clients issue in one behaviour of SpecBatch.
MaxBatchReqs == 2
\* Calls of one concurrent batch of SpecBatch.
MaxBatchSize == 2
\* Requests the clients issue in one behaviour of SpecMetrics.
MaxMetricsReqs == 4
\* Requests the clients issue in one behaviour of SpecTranslate.
MaxTransReqs == 1
\* Requests the clients issue in one behaviour of SpecOrder.
MaxOrderReqs == 2
\* Requests the clients issue in one behaviour of SpecLive.
MaxLiveReqs == 2

-----------------------------------------------------------------------------
(* JavaScript values *)

undefined == <<"undefined">>

\* !v for a string-or-undefined value
Falsy(v) == v = undefined \/ v = <<>>

\* a || b
Or(a, b) == IF Falsy(a) THEN b ELSE a

en == <<"e", "n">>
es == <<"e", "s">>
fr == <<"f", "r">>

u1 == <<"u", "1">>
u2 == <<"u", "2">>

hello == <<"h", "e", "l", "l", "o">>
hola == <<"h", "o", "l", "a">>
bonjour == <<"b", "o", "n", "j", "o", "u", "r">>

RECURSIVE SumSeq(_)
SumSeq(s) == IF s = <<>> THEN 0 ELSE Head(s) + SumSeq(Tail(s))

Min(a, b) == IF a < b THEN a ELSE b

Last(s) == s[Len(s)]

-----------------------------------------------------------------------------
(* The clock.  Date.now() reads the wall clock, which an adjustment can    *)
(* set back: after a reading t the next reading is t, later or earlier.    *)

DateNow(t) == 0 .. Min(t + 1, MaxClock)

\* The readings of a clock that no adjustment sets back
SteadyNow(t) == t .. Min(t + 1, MaxClock)

-----------------------------------------------------------------------------
(* Strings *)

UpperCaseLetters == <<"A", "B", "C", "D", "E", "F", "G", "H", "I", "J", "K", "L", "M",
                      "N", "O", "P", "Q", "R", "S", "T", "U", "V", "W", "X", "Y", "Z">>
LowerCaseLetters == <<"a", "b", "c", "d", "e", "f", "g", "h", "i", "j", "k", "l", "m",
                      "n", "o", "p", "q", "r", "s", "t", "u", "v", "w", "x", "y", "z">>

IndexOf(letters, ch) == CHOOSE i \in 1 .. Len(letters) : letters[i] = ch

LowerChar(ch) ==
    IF \E i \in 1 .. Len(UpperCaseLetters) : UpperCaseLetters[i] = ch
    THEN LowerCaseLetters[IndexOf(UpperCaseLetters, ch)] ELSE ch

UpperChar(ch) ==
    IF \E i \in 1 .. Len(LowerCaseLetters) : LowerCaseLetters[i] = ch
    THEN UpperCaseLetters[IndexOf(LowerCaseLetters, ch)] ELSE ch

\* String.prototype.toLowerCase / toUpperCase
toLowerCase(s) == [i \in 1 .. Len(s) |-> LowerChar(s[i])]
keepCase(s) == s
toUpperCase(s) == [i \in 1 .. Len(s) |-> UpperChar(s[i])]

\* String.prototype.trim (the only white space of the model's alphabet is " ")
RECURSIVE TrimStart(_)
TrimStart(s) == IF s # <<>> /\ Head(s) = " " THEN TrimStart(Tail(s)) ELSE s
RECURSIVE TrimEnd(_)
TrimEnd(s) == IF s # <<>> /\ Last(s) = " " THEN TrimEnd(SubSeq(s, 1, Len(s) - 1)) ELSE s
trim(s) == TrimEnd(TrimStart(s))

\* String.prototype.split(' '): the pieces between the separators, empty ones kept
RECURSIVE SplitFrom(_, _)
SplitFrom(s, word) ==
    IF s = <<>> THEN <<word>>
    ELSE IF Head(s) = " " THEN <<word>> \o SplitFrom(Tail(s), <<>>)
    ELSE SplitFrom(Tail(s), Append(word, Head(s)))
split(s) == SplitFrom(s, <<>>)

\* Array.prototype.join(' ')
RECURSIVE join(_)
join(words) ==
    IF Len(words) = 0 THEN <<>>
    ELSE IF Len(words) = 1 THEN words[1]
    ELSE words[1] \o <<" ">> \o join(Tail(words))

\* Buffer.byteLength(s, 'utf8'): the accented letters of the dictionaries take two bytes
TwoByteChars == {"á", "é", "í", "ó", "ú", "ñ"}
RECURSIVE byteLength(_)
byteLength(s) ==
    IF s = <<>> THEN 0
    ELSE (IF Head(s) \in TwoByteChars THEN 2 ELSE 1) + byteLength(Tail(s))

-----------------------------------------------------------------------------
(* Translation Service (src/translation-service/server.js) *)

thankYou == <<"t", "h", "a", "n", "k", " ", "y", "o", "u">>
gracias == <<"g", "r", "a", "c", "i", "a", "s">>
friend == <<"f", "r", "i", "e", "n", "d">>
amigo == <<"a", "m", "i", "g", "o">>
ami == <<"a", "m", "i">>
no == <<"n", "o">>
non == <<"n", "o", "n">>
yes == <<"y", "e", "s">>
si == <<"s", "í">>
merci == <<"m", "e", "r", "c", "i">>
oui == <<"o", "u", "i">>

\* `${sourceLang}-${targetLang}`
Key(sourceLang, targetLang) == sourceLang \o <<"-">> \o targetLang

\* Entries of the hardcoded mappings the texts of the model can reach.
TRANSLATIONS ==
    (Key(en, es) :> ((hello :> hola) @@ (thankYou :> gracias) @@ (yes :> si)
                     @@ (no :> no) @@ (friend :> amigo)))
    @@ (Key(en, fr) :> ((hello :> bonjour) @@ (thankYou :> merci) @@ (yes :> oui)
                        @@ (no :> non) @@ (friend :> ami)))
    @@ (Key(es, en) :> ((hola :> hello) @@ (gracias :> thankYou) @@ (si :> yes)
                        @@ (no :> no)))

EmptyObject == [k \in {} |-> <<>>]

\* The function Object, as String() and join() render it
ObjectFunction == <<"function Object() { [native code] }">>

\* The object Object.prototype, as String() and join() render it
ObjectObject == <<"[object Object]">>

constructor == <<"c", "o", "n", "s", "t", "r", "u", "c", "t", "o", "r">>
proto == <<"_", "_", "p", "r", "o", "t", "o", "_", "_">>

\* The properties an object literal inherits whose names are lower-case
\* (the lookups of translateText are made with lower-cased names)
ObjectPrototype == (constructor :> ObjectFunction) @@ (proto :> ObjectObject)

\* mappings[k]: an own property, else one inherited from Object.prototype
Lookup(mappings, k) ==
    IF k \in DOMAIN mappings THEN mappings[k]
    ELSE IF k \in DOMAIN ObjectPrototype THEN ObjectPrototype[k]
    ELSE undefined

\* translateText without its same-language shortcut
translateTextNoShortcut(text, sourceLang, targetLang) ==
    LET key == Key(sourceLang, targetLang)
        mappings == IF key \in DOMAIN TRANSLATIONS THEN TRANSLATIONS[key] ELSE EmptyObject
        normalizedText == trim(toLowerCase(text))
        words == split(normalizedText)
        translatedWords == [i \in 1 .. Len(words) |-> Or(Lookup(mappings, words[i]), words[i])]
        result == join(translatedWords)
    IN  IF ~Falsy(Lookup(mappings, normalizedText)) THEN Lookup(mappings, normalizedText)
        ELSE IF result = normalizedText
             THEN <<"[">> \o toUpperCase(targetLang) \o <<"]", " ">> \o text
             ELSE result

translateText(text, sourceLang, targetLang) ==
    IF sourceLang = targetLang THEN text
    ELSE
      LET key == Key(sourceLang, targetLang)
          mappings == IF key \in DOMAIN TRANSLATIONS THEN TRANSLATIONS[key] ELSE EmptyObject
          normalizedText == trim(toLowerCase(text))
          words == split(normalizedText)
          translatedWords == [i \in 1 .. Len(words) |-> Or(Lookup(mappings, words[i]), words[i])]
          result == join(translatedWords)
      IN  IF ~Falsy(Lookup(mappings, normalizedText)) THEN Lookup(mappings, normalizedText)
          ELSE IF result = normalizedText
               THEN <<"[">> \o toUpperCase(targetLang) \o <<"]", " ">> \o text
               ELSE result

\* The reply of the handler's try block (outcome "ok") or of its catch block
\* processingTime is Date.now() - startTime on the worker's clock.
handleTranslateText(request, outcome, processingTime) ==
    IF outcome = "ok"
    THEN [translated_text |-> translateText(request.text, request.source_language,
                                            request.target_language),
          success |-> TRUE,
          processing_time_ms |-> processingTime]
    ELSE [translated_text |-> <<>>, success |-> FALSE,
          processing_time_ms |-> processingTime]

-----------------------------------------------------------------------------
(* Audio Service (src/audio-service/server.js).  A Buffer is modelled by   *)
(* its length: neither the gateway nor the worker reads the bytes.         *)

wav == <<"w", "a", "v">>

\* Math.max(originalAudio.length, 1024)
DummyAudioFloor == 1024

Max(a, b) == IF a > b THEN a ELSE b

\* Buffer.from(`TRANSLATED_AUDIO:${sourceLang}->${targetLang}|`).length
HeaderLength(sourceLang, targetLang) ==
    byteLength(<<"T", "R", "A", "N", "S", "L", "A", "T", "E", "D", "_",
                 "A", "U", "D", "I", "O", ":">> \o sourceLang \o <<"-", ">">>
               \o targetLang \o <<"|">>)

\* processedSize of generateTranslatedAudio
generateTranslatedAudio(originalAudio, sourceLang, targetLang) ==
    HeaderLength(sourceLang, targetLang) + Max(originalAudio, DummyAudioFloor)

handleProcessAudio(request, outcome) ==
    IF outcome = "ok"
    THEN LET processedSize == generateTranslatedAudio(request.audio_data,
                                  request.source_language, request.target_language)
         IN  [translated_audio |-> processedSize,
              audio_format |-> Or(request.audio_format, wav),
              success |-> TRUE,
              processed_size |-> processedSize]
    ELSE [translated_audio |-> 0,
          audio_format |-> request.audio_format,
          success |-> FALSE,
          processed_size |-> 0]

-----------------------------------------------------------------------------
(* Number formatting *)

Abs(x) == IF x < 0 THEN -x ELSE x

RECURSIVE Pow10(_)
Pow10(f) == IF f = 0 THEN 1 ELSE 10 * Pow10(f - 1)

RECURSIVE Digits(_, _)
Digits(n, f) == IF f = 0 THEN "" ELSE Digits(n \div 10, f - 1) \o ToString(n % 10)

\* (num / den).toFixed(f) for integers num and den: the quotient of a
\* division by zero is NaN, Infinity or -Infinity; a finite quotient is
\* rounded to f decimals, halves away from zero, and keeps its sign.
toFixed(num, den, f) ==
    IF den = 0
    THEN (IF num = 0 THEN "NaN" ELSE IF num > 0 THEN "Infinity" ELSE "-Infinity")
    ELSE LET negative == (num < 0) # (den < 0) /\ num # 0
             n == (2 * Abs(num) * Pow10(f) + Abs(den)) \div (2 * Abs(den))
         IN  (IF negative THEN "-" ELSE "") \o ToString(n \div Pow10(f))
             \o (IF f = 0 THEN "" ELSE "." \o Digits(n % Pow10(f), f))

-----------------------------------------------------------------------------
(* API gateway: state (src/screenshots/README.md, 467-481) *)

NoMetrics == [rest |-> [text |-> <<>>, audio |-> <<>>],
              grpc |-> [text |-> <<>>, audio |-> <<>>]]

Init ==
    /\ userLanguages = [u \in {} |-> <<>>]
    /\ chatHistory = <<>>
    /\ performanceMetrics = NoMetrics
    /\ pending = [r \in {} |-> <<>>]
    /\ workerCalls = [r \in {} |-> 0]
    /\ out = [r \in {} |-> <<>>]
    /\ now = 0
    /\ nextReq = 1

\* userLanguages.get(userId)
MapGet(map, k) == IF k \in DOMAIN map THEN map[k] ELSE undefined

\* userLanguages.set(userId, language)
MapSetOnce(map, k, v) == [x \in DOMAIN map \cup {k} |-> IF x \in DOMAIN map THEN map[x] ELSE v]
MapSet(map, k, v) == [x \in DOMAIN map \cup {k} |-> IF x = k THEN v ELSE map[x]]

Drop(f, k) == [x \in DOMAIN f \ {k} |-> f[x]]

\* chatHistory.push(chatEntry)
unshift(arr, item) == <<item>> \o arr
push(arr, item) == Append(arr, item)

\* uuidv4(): an identifier no earlier entry has
uuidv4 == Len(chatHistory) + 1

\* The bytes of JSON.stringify({userId, text, sourceLanguage, targetLanguage})
\* besides the four values: {"userId":"","text":"","sourceLanguage":"","targetLanguage":""}
TextWrapperBytes == 63

getJsonSize(userId, text, sourceLanguage, targetLanguage) ==
    TextWrapperBytes + byteLength(userId) + byteLength(text)
    + byteLength(sourceLanguage) + byteLength(targetLanguage)

\* The responses request rid has been sent, in order
Responses(rid) == IF rid \in DOMAIN out THEN out[rid] ELSE <<>>

\* res.status(status).json(body), answering request rid of operation op
Respond(rid, op, status, body) ==
    out' = [r \in DOMAIN out \cup {rid} |->
              IF r = rid
              THEN Append(Responses(rid), [op |-> op, status |-> status, body |-> body])
              ELSE out[r]]

\* Request rid calls a method of a gRPC client n times; workerCalls[rid] counts
\* the calls made for request rid
CallWithRetry(rid, n) ==
    workerCalls' = [r \in DOMAIN workerCalls \cup {rid} |->
                      IF r = rid
                      THEN (IF rid \in DOMAIN workerCalls THEN workerCalls[rid] ELSE 0) + n + 1
                      ELSE workerCalls[r]]
Call(rid, n) ==
    workerCalls' = [r \in DOMAIN workerCalls \cup {rid} |->
                      IF r = rid
                      THEN (IF rid \in DOMAIN workerCalls THEN workerCalls[rid] ELSE 0) + n
                      ELSE workerCalls[r]]

-----------------------------------------------------------------------------
(* POST /api/users/language, GET /api/users/:userId/language *)

SetLanguage(userId, language, startTime, endTime) ==
    /\ nextReq' = nextReq + 1
    /\ IF Falsy(userId) \/ Falsy(language)
       THEN /\ Respond(nextReq, "SetLanguage", 400,
                       [success |-> FALSE, error |-> "userId and language are required"])
            /\ now' = startTime
            /\ UNCHANGED userLanguages
       ELSE /\ userLanguages' = MapSet(userLanguages, userId, language)
            /\ Respond(nextReq, "SetLanguage", 200,
                       [success |-> TRUE, userId |-> userId, language |-> language,
                        responseTime |-> endTime - startTime])
            /\ now' = endTime
    /\ UNCHANGED <<chatHistory, performanceMetrics, pending, workerCalls>>

\* A get-or-create read: the default is stored for a user without preference
GetLanguageStoring(userId) ==
    /\ nextReq' = nextReq + 1
    /\ Respond(nextReq, "GetLanguage", 200,
               [success |-> TRUE, userId |-> userId,
                language |-> Or(MapGet(userLanguages, userId), en)])
    /\ userLanguages' = MapSetOnce(userLanguages, userId, en)
    /\ UNCHANGED <<chatHistory, performanceMetrics, pending, workerCalls, now>>

GetLanguage(userId) ==
    /\ nextReq' = nextReq + 1
    /\ Respond(nextReq, "GetLanguage", 200,
               [success |-> TRUE, userId |-> userId,
                language |-> Or(MapGet(userLanguages, userId), en)])
    /\ UNCHANGED <<userLanguages, chatHistory, performanceMetrics, pending,
                   workerCalls, now>>

-----------------------------------------------------------------------------
(* POST /api/messages/text *)

\* targetLanguage || userLanguages.get(userId) || 'es'
PreferenceFirst(targetLanguage, userId) ==
    Or(MapGet(userLanguages, userId), Or(targetLanguage, es))
\* targetLanguage || userLanguages.get(userId) || 'en'
TargetLangOrEn(targetLanguage, userId) ==
    Or(targetLanguage, Or(MapGet(userLanguages, userId), en))
TargetLang(targetLanguage, userId) ==
    Or(targetLanguage, Or(MapGet(userLanguages, userId), es))

\* Math.floor(restPayloadSize * 0.6)
TextGrpcPayloadWhole(restPayloadSize) == restPayloadSize
TextGrpcPayloadSize(restPayloadSize) == (restPayloadSize * 6) \div 10

\* `${((1 - grpcPayloadSize / restPayloadSize) * 100).toFixed(1)}%`
SizeReduction(grpcPayloadSize, restPayloadSize) ==
    toFixed((restPayloadSize - grpcPayloadSize) * 100, restPayloadSize, 1) \o "%"

\* if (error), in the callbacks of TranslateText and ProcessAudio
FailedNever(outcome) == FALSE
Failed(outcome) == outcome = "error"

\* if (!userId || !text)
MissingTextOnly(userId, text) == Falsy(text)
MissingTextFields(userId, text) == Falsy(userId) \/ Falsy(text)

\* The performance block of a text or audio response
Performance(restTime, grpcTime, restPayloadSize, grpcPayloadSize) ==
    [totalResponseTime |-> restTime,
     grpcServiceTime |-> grpcTime,
     gatewayOverhead |-> restTime - grpcTime,
     restPayloadSize |-> restPayloadSize,
     grpcPayloadSize |-> grpcPayloadSize,
     sizeReduction |-> SizeReduction(grpcPayloadSize, restPayloadSize)]

\* performanceMetrics.rest[kind].push(...); performanceMetrics.grpc[kind].push(...)
PushRestOnly(metrics, kind, restTime, grpcTime, restPayloadSize, grpcPayloadSize) ==
    [metrics EXCEPT
       !.rest[kind] = Append(@, [time |-> restTime, size |-> restPayloadSize])]
PushGrpcToAudio(metrics, kind, restTime, grpcTime, restPayloadSize, grpcPayloadSize) ==
    [metrics EXCEPT
       !.rest[kind] = Append(@, [time |-> restTime, size |-> restPayloadSize]),
       !.grpc.audio = Append(@, [time |-> grpcTime, size |-> grpcPayloadSize])]
PushNothing(metrics, kind, restTime, grpcTime, restPayloadSize, grpcPayloadSize) == metrics
PushSamples(metrics, kind, restTime, grpcTime, restPayloadSize, grpcPayloadSize) ==
    [metrics EXCEPT
       !.rest[kind] = Append(@, [time |-> restTime, size |-> restPayloadSize]),
       !.grpc[kind] = Append(@, [time |-> grpcTime, size |-> grpcPayloadSize])]

SendText(userId, text, sourceLanguageIn, targetLanguage, restStartTime, timestamp, grpcStartTime) ==
    /\ nextReq' = nextReq + 1
    /\ IF MissingTextFields(userId, text)
       THEN /\ Respond(nextReq, "SendText", 400,
                       [success |-> FALSE, error |-> "userId and text are required"])
            /\ now' = restStartTime
            /\ UNCHANGED <<pending, workerCalls>>
       ELSE LET sourceLanguage == IF sourceLanguageIn = undefined THEN en
                                  ELSE sourceLanguageIn
                targetLang == TargetLang(targetLanguage, userId)
                restPayloadSize == getJsonSize(userId, text, sourceLanguage, targetLang)
                grpcRequest == [text |-> text, source_language |-> sourceLanguage,
                                target_language |-> targetLang, user_id |-> userId,
                                timestamp |-> timestamp]
            IN  /\ Call(nextReq, 1)
                /\ pending' = pending @@ (nextReq :>
                      [op |-> "SendText", userId |-> userId, text |-> text,
                       sourceLanguage |-> sourceLanguage, targetLang |-> targetLang,
                       restStartTime |-> restStartTime, grpcStartTime |-> grpcStartTime,
                       restPayloadSize |-> restPayloadSize,
                       grpcPayloadSize |-> TextGrpcPayloadSize(restPayloadSize),
                       grpcRequest |-> grpcRequest])
                /\ now' = grpcStartTime
                /\ UNCHANGED out
    /\ UNCHANGED <<userLanguages, chatHistory, performanceMetrics>>

\* The preference of the user read again when the reply arrives
TargetLangAtReply(c) == Or(MapGet(userLanguages, c.userId), es)
\* targetLang in a callback: the constant of the request's closure
ClosureTargetLang(c) == c.targetLang

\* A timestamp taken when the request arrived
ArrivalTimestamp(c, entryTime) == c.restStartTime
\* timestamp: new Date().toISOString(), read when the entry is built; the
\* model keeps the reading, which the ISO text renders in the same order
EntryTimestamp(c, entryTime) == entryTime

\* The callback of translationClient.TranslateText
TranslateTextCallback(rid, outcome, processingTime, grpcEndTime, entryTime, endTime) ==
    /\ rid \in DOMAIN pending
    /\ pending[rid].op = "SendText"
    /\ pending' = Drop(pending, rid)
    /\ LET c == pending[rid]
           response == handleTranslateText(c.grpcRequest, outcome, processingTime)
           grpcTime == grpcEndTime - c.grpcStartTime
           restTime == endTime - c.restStartTime
           chatEntry == [id |-> uuidv4, type |-> "text", userId |-> c.userId,
                         originalText |-> c.text,
                         translatedText |-> response.translated_text,
                         sourceLanguage |-> c.sourceLanguage,
                         targetLanguage |-> ClosureTargetLang(c),
                         timestamp |-> EntryTimestamp(c, entryTime)]
       IN  IF Failed(outcome)
           THEN /\ Respond(rid, "SendText", 500,
                           [success |-> FALSE, error |-> "Translation service unavailable"])
                /\ now' = grpcEndTime
                /\ UNCHANGED <<chatHistory, performanceMetrics>>
           ELSE /\ chatHistory' = push(chatHistory, chatEntry)
                /\ performanceMetrics' =
                     PushSamples(performanceMetrics, "text", restTime, grpcTime,
                                 c.restPayloadSize, c.grpcPayloadSize)
                /\ Respond(rid, "SendText", 200,
                     [success |-> TRUE, messageId |-> chatEntry.id,
                      original |-> [text |-> c.text, language |-> c.sourceLanguage],
                      translated |-> [text |-> response.translated_text,
                                      language |-> ClosureTargetLang(c)],
                      performance |-> Performance(restTime, grpcTime, c.restPayloadSize,
                                                  c.grpcPayloadSize)])
                /\ now' = endTime
    /\ UNCHANGED <<userLanguages, workerCalls, nextReq>>

-----------------------------------------------------------------------------
(* POST /api/messages/audio *)

\* Buffer.from(audioData, 'base64').length: six bits for each character
\* before the padding
RECURSIVE DataChars(_)
DataChars(s) == IF s = <<>> \/ Head(s) = "=" THEN 0 ELSE 1 + DataChars(Tail(s))
Base64Decode(audioData) == (DataChars(audioData) * 6) \div 8

\* buffer.toString('base64').length
Base64LengthUnpadded(n) == (4 * n + 2) \div 3
Base64Length(n) == 4 * ((n + 2) \div 3)

\* restPayloadSize = base64Size + 200
AudioWrapperBytes == 200
\* grpcPayloadSize = audioBuffer.length + 50
AudioFramingBytes == 50

\* req.file is <<>> when no file was uploaded and <<n>> for a file of n bytes
SendAudio(file, audioData, userId, sourceLanguageIn, targetLanguage, audioFormatIn, restStartTime, timestamp, grpcStartTime) ==
    /\ nextReq' = nextReq + 1
    /\ IF file = <<>> /\ Falsy(audioData)
       THEN /\ Respond(nextReq, "SendAudio", 400,
                       [success |-> FALSE,
                        error |-> "Audio data required (either file upload or base64 audioData)"])
            /\ now' = restStartTime
            /\ UNCHANGED <<pending, workerCalls>>
       ELSE IF Falsy(userId)
       THEN /\ Respond(nextReq, "SendAudio", 400,
                       [success |-> FALSE, error |-> "userId is required"])
            /\ now' = restStartTime
            /\ UNCHANGED <<pending, workerCalls>>
       ELSE LET audioBuffer == IF file # <<>> THEN file[1] ELSE Base64Decode(audioData)
                sourceLanguage == Or(sourceLanguageIn, en)
                audioFormat == Or(audioFormatIn, wav)
                targetLang == TargetLang(targetLanguage, userId)
                restPayloadSize == Base64Length(audioBuffer) + AudioWrapperBytes
                grpcPayloadSize == audioBuffer + AudioFramingBytes
                grpcRequest == [audio_data |-> audioBuffer, audio_format |-> audioFormat,
                                source_language |-> sourceLanguage,
                                target_language |-> targetLang, user_id |-> userId,
                                timestamp |-> timestamp,
                                sample_rate |-> 44100, channels |-> 2]
            IN  /\ Call(nextReq, 1)
                /\ pending' = pending @@ (nextReq :>
                      [op |-> "SendAudio", userId |-> userId, audioBuffer |-> audioBuffer,
                       audioFormat |-> audioFormat,
                       sourceLanguage |-> sourceLanguage, targetLang |-> targetLang,
                       restStartTime |-> restStartTime, grpcStartTime |-> grpcStartTime,
                       restPayloadSize |-> restPayloadSize,
                       grpcPayloadSize |-> grpcPayloadSize,
                       grpcRequest |-> grpcRequest])
                /\ now' = grpcStartTime
                /\ UNCHANGED out
    /\ UNCHANGED <<userLanguages, chatHistory, performanceMetrics>>

\* The callback of audioClient.ProcessAudio
ProcessAudioCallback(rid, outcome, grpcEndTime, entryTime, endTime) ==
    /\ rid \in DOMAIN pending
    /\ pending[rid].op = "SendAudio"
    /\ pending' = Drop(pending, rid)
    /\ LET c == pending[rid]
           response == handleProcessAudio(c.grpcRequest, outcome)
           grpcTime == grpcEndTime - c.grpcStartTime
           restTime == endTime - c.restStartTime
           chatEntry == [id |-> uuidv4, type |-> "audio", userId |-> c.userId,
                         audioSize |-> c.audioBuffer,
                         processedAudioSize |-> response.processed_size,
                         sourceLanguage |-> c.sourceLanguage,
                         targetLanguage |-> ClosureTargetLang(c),
                         timestamp |-> EntryTimestamp(c, entryTime)]
       IN  IF Failed(outcome)
           THEN /\ Respond(rid, "SendAudio", 500,
                           [success |-> FALSE, error |-> "Audio service unavailable"])
                /\ now' = grpcEndTime
                /\ UNCHANGED <<chatHistory, performanceMetrics>>
           ELSE /\ chatHistory' = push(chatHistory, chatEntry)
                /\ performanceMetrics' =
                     PushSamples(performanceMetrics, "audio", restTime, grpcTime,
                                 c.restPayloadSize, c.grpcPayloadSize)
                /\ Respond(rid, "SendAudio", 200,
                     [success |-> TRUE, messageId |-> chatEntry.id,
                      original |-> [size |-> c.audioBuffer, format |-> c.audioFormat,
                                    language |-> c.sourceLanguage],
                      processed |-> [audioData |-> Base64Length(response.translated_audio),
                                     size |-> response.processed_size,
                                     format |-> response.audio_format,
                                     language |-> ClosureTargetLang(c)],
                      performance |-> Performance(restTime, grpcTime, c.restPayloadSize,
                                                  c.grpcPayloadSize)])
                /\ now' = endTime
    /\ UNCHANGED <<userLanguages, workerCalls, nextReq>>

\* express.json({ limit: '50mb' }) and multer's limits: { fileSize: 50 * 1024 * 1024 }
JsonLimit == 50 * 1024 * 1024
FileSizeLimit == 50 * 1024 * 1024

\* app.use((err, req, res, next) => ...), the error-handling middleware
ErrorMiddleware(rid, op, message) ==
    Respond(rid, op, 500,
            [success |-> FALSE, error |-> "Internal server error", details |-> message])

\* A request to POST /api/messages/audio, from the body parsers on: a JSON body
\* of contentLength bytes passes express.json, an uploaded file passes
\* upload.single('audio'); either hands an oversize input to the error-handling
\* middleware, and the route's handler runs for the rest.
PostAudio(contentLength, file, audioData, userId, sourceLanguageIn, targetLanguage, audioFormatIn, restStartTime, timestamp, grpcStartTime) ==
    IF file = <<>> /\ contentLength > JsonLimit
    THEN /\ nextReq' = nextReq + 1
         /\ ErrorMiddleware(nextReq, "SendAudio", "request entity too large")
         /\ UNCHANGED <<userLanguages, chatHistory, performanceMetrics, pending,
                        workerCalls, now>>
    ELSE IF file # <<>> /\ file[1] > FileSizeLimit
    THEN /\ nextReq' = nextReq + 1
         /\ ErrorMiddleware(nextReq, "SendAudio", "File too large")
         /\ UNCHANGED <<userLanguages, chatHistory, performanceMetrics, pending,
                        workerCalls, now>>
    ELSE SendAudio(file, audioData, userId, sourceLanguageIn, targetLanguage,
                   audioFormatIn, restStartTime, timestamp, grpcStartTime)

-----------------------------------------------------------------------------
(* GET /api/messages/history *)

\* Array.prototype.slice(start)
sliceFromStart(arr, start) == SubSeq(arr, 1, Min(Max(0 - start, 0), Len(arr)))
slice(arr, start) ==
    LET k == IF start < 0 THEN Max(Len(arr) + start, 0) ELSE Min(start, Len(arr))
    IN  SubSeq(arr, k + 1, Len(arr))

\* const { userId, limit = 50 } = req.query
DefaultLimit == 50

\* limit is <<>> when the query has none and <<n>> when parseInt(limit) is n
GetHistory(userId, limit) ==
    /\ nextReq' = nextReq + 1
    /\ LET matching(msg) == msg.userId = userId
           filtered == IF Falsy(userId) THEN chatHistory
                       ELSE SelectSeq(chatHistory, matching)
           n == IF limit = <<>> THEN DefaultLimit ELSE limit[1]
           history == slice(filtered, -n)
       IN  Respond(nextReq, "GetHistory", 200,
                   [success |-> TRUE, count |-> Len(history), messages |-> history])
    /\ UNCHANGED <<userLanguages, chatHistory, performanceMetrics, pending,
                   workerCalls, now>>

-----------------------------------------------------------------------------
(* GET /api/performance/metrics *)

\* A JavaScript number that is a quotient of integers: <<numerator, denominator>>;
\* a zero denominator with a zero, positive or negative numerator is NaN,
\* Infinity or -Infinity
Times(arr) == [i \in 1 .. Len(arr) |-> arr[i].time]
Sizes(arr) == [i \in 1 .. Len(arr) |-> arr[i].size]

\* calcAvg(arr, prop), given the values of prop
calcSum(values) == <<SumSeq(values), 1>>
calcAvgUnguarded(values) == <<SumSeq(values), Len(values)>>
calcAvg(values) ==
    IF Len(values) = 0 THEN <<0, 1>> ELSE <<SumSeq(values), Len(values)>>

\* x / y
Quotient(x, y) == <<x[1] * y[2], x[2] * y[1]>>

NumberToFixed(x, f) == toFixed(x[1], x[2], f)

SpeedImprovement(restSamples, grpcSamples) ==
    IF Len(restSamples) > 0
    THEN "gRPC is "
         \o NumberToFixed(Quotient(calcAvg(Times(restSamples)), calcAvg(Times(grpcSamples))), 2)
         \o "x faster"
    ELSE "No data"

Averages(samples) ==
    [avgResponseTime |-> NumberToFixed(calcAvg(Times(samples)), 2),
     avgPayloadSize |-> NumberToFixed(calcAvg(Sizes(samples)), 0),
     sampleCount |-> Len(samples)]

Metrics(m) ==
    [text |-> [rest |-> Averages(m.rest.text), grpc |-> Averages(m.grpc.text)],
     audio |-> [rest |-> Averages(m.rest.audio), grpc |-> Averages(m.grpc.audio)],
     analysis |-> [textSpeedImprovement |-> SpeedImprovement(m.rest.text, m.grpc.text),
                   audioSpeedImprovement |-> SpeedImprovement(m.rest.audio, m.grpc.audio),
                   recommendation |->
                     "Use gRPC for service-to-service communication for better performance"]]

GetMetrics ==
    /\ nextReq' = nextReq + 1
    /\ Respond(nextReq, "GetMetrics", 200,
               [success |-> TRUE, metrics |-> Metrics(performanceMetrics)])
    /\ UNCHANGED <<userLanguages, chatHistory, performanceMetrics, pending,
                   workerCalls, now>>

-----------------------------------------------------------------------------
(* POST /api/test/concurrent *)

\* `Test message ${i + 1}` and `test-user-${i}` (one decimal digit)
TestMessage(i) == <<"T", "e", "s", "t", " ", "m", "e", "s", "s", "a", "g", "e", " ">>
                  \o <<ToString(i + 1)>>
TestUser(i) == <<"t", "e", "s", "t", "-", "u", "s", "e", "r", "-">> \o <<ToString(i)>>

BatchRequest(i, timestamp) ==
    [text |-> TestMessage(i), source_language |-> en, target_language |-> es,
     user_id |-> TestUser(i), timestamp |-> timestamp]

\* The success response, sent when Promise.all resolves with results
BatchSuccess(messages, totalTime, results) ==
    [success |-> TRUE,
     messagesProcessed |-> messages,
     totalTime |-> ToString(totalTime) \o "ms",
     avgTimePerMessage |-> toFixed(totalTime, messages, 2) \o "ms",
     results |-> [i \in 1 .. Len(results) |->
                    [message |-> i, translated |-> results[i].translated_text,
                     time |-> results[i].processing_time_ms]]]

\* The handler up to `await Promise.all(promises)`: the loop starts every call
\* (all requests carry one clock reading here); with no call to wait for the
\* join resolves at once.  promises[i] is <<>> while call i is outstanding.
RunConcurrentBatch(messages, startTime, timestamp, endTime) ==
    /\ nextReq' = nextReq + 1
    /\ LET n == Max(messages, 0)
       IN  /\ IF n = 0 THEN UNCHANGED workerCalls ELSE Call(nextReq, n)
           /\ IF n = 0
              THEN /\ Respond(nextReq, "RunConcurrentBatch", 200,
                              BatchSuccess(messages, endTime - startTime, <<>>))
                   /\ now' = endTime
                   /\ UNCHANGED pending
              ELSE /\ pending' = pending @@ (nextReq :>
                         [op |-> "RunConcurrentBatch", messages |-> messages,
                          startTime |-> startTime,
                          requests |-> [i \in 1 .. n |-> BatchRequest(i - 1, timestamp)],
                          promises |-> [i \in 1 .. n |-> <<>>],
                          settled |-> FALSE, outstanding |-> 1 .. n])
                   /\ now' = timestamp
                   /\ UNCHANGED out
    /\ UNCHANGED <<userLanguages, chatHistory, performanceMetrics>>

\* resolve(response) in the callback of call i: Promise.all keeps the value of
\* promise i at position i
resolveInArrivalOrder(promises, i, response) ==
    LET first == CHOOSE k \in 1 .. Len(promises) :
                   promises[k] = <<>> /\ \A j \in 1 .. k - 1 : promises[j] # <<>>
    IN  [promises EXCEPT ![first] = <<response>>]
resolve(promises, i, response) == [promises EXCEPT ![i] = <<response>>]

\* if (error) reject(error): the first rejection rejects Promise.all
rejectNever(settled, outcome) == FALSE
reject(settled, outcome) == ~settled /\ outcome = "error"

\* The callback of call i of a batch, and the continuation of the handler when
\* it settles Promise.all: the first rejection rejects the join, the last
\* resolution resolves it; a callback after the join has settled changes nothing.
BatchCallback(rid, i, outcome, processingTime, endTime) ==
    /\ rid \in DOMAIN pending
    /\ pending[rid].op = "RunConcurrentBatch"
    /\ i \in pending[rid].outstanding
    /\ LET c == pending[rid]
           response == handleTranslateText(c.requests[i], outcome, processingTime)
           promises == IF outcome = "error" THEN c.promises
                       ELSE resolve(c.promises, i, response)
           outstanding == c.outstanding \ {i}
           rejects == reject(c.settled, outcome)
           resolves == ~c.settled /\ outcome # "error" /\ outstanding = {}
           results == [k \in 1 .. Len(promises) |-> promises[k][1]]
       IN  /\ pending' = IF outstanding = {} THEN Drop(pending, rid)
                         ELSE [pending EXCEPT
                                 ![rid].promises = promises,
                                 ![rid].outstanding = outstanding,
                                 ![rid].settled = c.settled \/ rejects]
           /\ IF rejects
              THEN /\ Respond(rid, "RunConcurrentBatch", 500,
                              [success |-> FALSE, error |-> "14 UNAVAILABLE"])
                   /\ UNCHANGED now
              ELSE IF resolves
              THEN /\ Respond(rid, "RunConcurrentBatch", 200,
                              BatchSuccess(c.messages, endTime - c.startTime, results))
                   /\ now' = endTime
              ELSE UNCHANGED <<out, now>>
    /\ UNCHANGED <<userLanguages, chatHistory, performanceMetrics, workerCalls, nextReq>>

-----------------------------------------------------------------------------
(* Inputs of the requests *)

\* What a worker can deliver to a callback: an RPC error, the reply of the
\* handler's try block, or the reply of its catch block
RpcOutcomes == {"error", "ok", "caught"}

AAAA == <<"A", "A", "A", "A">>

-----------------------------------------------------------------------------
(* Spec: every operation of the gateway, one user, every outcome of the    *)
(* workers, all requests served within one millisecond.                    *)

UserIds == {undefined, <<>>, u1, u2}
Languages == {undefined, <<>>, fr}
Texts == {undefined, <<>>, hello}
Files == {<<>>, <<2>>}
AudioDatas == {undefined, <<>>, AAAA}
Limits == {<<>>, <<1>>}

Next ==
    \/ \E userId \in UserIds, language \in Languages :
         nextReq <= MaxReqs /\ SetLanguage(userId, language, now, now)
    \/ \E userId \in UserIds :
         nextReq <= MaxReqs /\ GetLanguage(userId)
    \/ \E userId \in UserIds, text \in Texts :
         nextReq <= MaxReqs /\ SendText(userId, text, undefined, undefined, now, now, now)
    \/ \E file \in Files, audioData \in AudioDatas, userId \in UserIds :
         nextReq <= MaxReqs
         /\ SendAudio(file, audioData, userId, undefined, undefined, undefined, now, now, now)
    \/ \E userId \in UserIds, limit \in Limits :
         nextReq <= MaxReqs /\ GetHistory(userId, limit)
    \/ nextReq <= MaxReqs /\ GetMetrics
    \/ \E messages \in 0 .. MaxBatch :
         nextReq <= MaxReqs /\ RunConcurrentBatch(messages, now, now, now)
    \/ \E rid \in DOMAIN pending, outcome \in RpcOutcomes :
         TranslateTextCallback(rid, outcome, 0, now, now, now)
    \/ \E rid \in DOMAIN pending, outcome \in RpcOutcomes :
         ProcessAudioCallback(rid, outcome, now, now, now)
    \/ \E rid \in DOMAIN pending, i \in 1 .. MaxBatch, outcome \in RpcOutcomes :
         BatchCallback(rid, i, outcome, 0, now)

Spec == Init /\ [][Next]_vars

-----------------------------------------------------------------------------
(* SpecLang: the operations that write or read the language preferences,   *)
(* two users, two languages, explicit and omitted target languages;        *)
(* workers that reply, all requests served within one millisecond.         *)

LangUserIds == {u1, u2}
LangLanguages == {fr, en}
LangTargets == {undefined, <<>>, en}

NextLang ==
    \/ \E userId \in LangUserIds, language \in LangLanguages :
         nextReq <= MaxLangReqs /\ SetLanguage(userId, language, now, now)
    \/ \E userId \in LangUserIds :
         nextReq <= MaxLangReqs /\ GetLanguage(userId)
    \/ \E userId \in LangUserIds, targetLanguage \in LangTargets :
         nextReq <= MaxLangReqs
         /\ SendText(userId, hello, undefined, targetLanguage, now, now, now)
    \/ \E userId \in LangUserIds, targetLanguage \in LangTargets :
         nextReq <= MaxLangReqs
         /\ SendAudio(<<2>>, undefined, userId, undefined, targetLanguage, undefined,
                      now, now, now)
    \/ \E rid \in DOMAIN pending : TranslateTextCallback(rid, "ok", 0, now, now, now)
    \/ \E rid \in DOMAIN pending : ProcessAudioCallback(rid, "ok", now, now, now)

SpecLang == Init /\ [][NextLang]_vars

-----------------------------------------------------------------------------
(* SpecClock: one user sending texts and audio and reading the metrics,    *)
(* every Date.now() of the gateway drawn from the readings of the clock.   *)

NextClock ==
    \/ \E t1 \in DateNow(now) : \E t2 \in DateNow(t1) : \E t3 \in DateNow(t2) :
         nextReq <= MaxClockReqs /\ SendText(u1, hello, undefined, undefined, t1, t2, t3)
    \/ \E t1 \in DateNow(now) : \E t2 \in DateNow(t1) : \E t3 \in DateNow(t2) :
         nextReq <= MaxClockReqs
         /\ SendAudio(<<2>>, undefined, u1, undefined, undefined, undefined, t1, t2, t3)
    \/ nextReq <= MaxClockReqs /\ GetMetrics
    \/ \E rid \in DOMAIN pending, outcome \in RpcOutcomes :
       \E t1 \in DateNow(now) : \E t2 \in DateNow(t1) : \E t3 \in DateNow(t2) :
         TranslateTextCallback(rid, outcome, 0, t1, t2, t3)
    \/ \E rid \in DOMAIN pending, outcome \in RpcOutcomes :
       \E t1 \in DateNow(now) : \E t2 \in DateNow(t1) : \E t3 \in DateNow(t2) :
         ProcessAudioCallback(rid, outcome, t1, t2, t3)

SpecClock == Init /\ [][NextClock]_vars

-----------------------------------------------------------------------------
(* SpecSize: one user sending texts of several lengths and audio of several *)
(* sizes, by upload and as base64 in JSON, up to and beyond the limits of   *)
(* the body parsers; workers that reply.                                    *)

hi == <<"h", "i">>
AAA1 == <<"A", "A", "A", "=">>
AA2 == <<"A", "A", "=", "=">>

SizeTexts == {hi, hello, thankYou}
SizeFiles == {<<>>} \cup {<<n>> : n \in 0 .. MaxAudioBytes}
             \cup {<<10240>>, <<FileSizeLimit + 1>>}
SizeAudioDatas == {undefined, AAAA, AAA1, AA2}
ContentLengths == {JsonLimit, JsonLimit + 1}

NextSize ==
    \/ \E text \in SizeTexts :
         nextReq <= MaxSizeReqs /\ SendText(u1, text, undefined, undefined, now, now, now)
    \/ \E contentLength \in ContentLengths, file \in SizeFiles, audioData \in SizeAudioDatas :
         nextReq <= MaxSizeReqs
         /\ PostAudio(contentLength, file, audioData, u1, undefined, undefined, undefined,
                      now, now, now)
    \/ \E rid \in DOMAIN pending : TranslateTextCallback(rid, "ok", 0, now, now, now)
    \/ \E rid \in DOMAIN pending : ProcessAudioCallback(rid, "ok", now, now, now)

SpecSize == Init /\ [][NextSize]_vars

-----------------------------------------------------------------------------
(* SpecHistory: two users sending texts and audio that the workers serve,   *)
(* and reading the history with and without a filter and a limit.          *)

HistUserIds == {undefined, u1, u2}
HistLimits == {<<>>} \cup {<<n>> : n \in 0 .. MaxLimit}

NextHistory ==
    \/ \E userId \in LangUserIds :
         nextReq <= MaxHistReqs /\ SendText(userId, hello, undefined, undefined, now, now, now)
    \/ \E userId \in LangUserIds :
         nextReq <= MaxHistReqs
         /\ SendAudio(<<2>>, undefined, userId, undefined, undefined, undefined, now, now, now)
    \/ \E userId \in HistUserIds, limit \in HistLimits :
         nextReq <= MaxHistReqs /\ GetHistory(userId, limit)
    \/ \E rid \in DOMAIN pending : TranslateTextCallback(rid, "ok", 0, now, now, now)
    \/ \E rid \in DOMAIN pending : ProcessAudioCallback(rid, "ok", now, now, now)

SpecHistory == Init /\ [][NextHistory]_vars

-----------------------------------------------------------------------------
(* SpecBatch: concurrent batches of every small size, zero and a negative   *)
(* count included, whose calls the worker answers in any order.  The texts  *)
(* of a batch are fixed and translateText does not throw on them, so a call *)
(* ends with an RPC error or with the reply of the handler's try block.     *)

BatchSizes == -1 .. MaxBatchSize
BatchOutcomes == {"error", "ok"}

NextBatch ==
    \/ \E messages \in BatchSizes :
         nextReq <= MaxBatchReqs /\ RunConcurrentBatch(messages, now, now, now)
    \/ \E rid \in DOMAIN pending, i \in 1 .. MaxBatchSize, outcome \in BatchOutcomes :
         BatchCallback(rid, i, outcome, 0, now)

SpecBatch == Init /\ [][NextBatch]_vars

-----------------------------------------------------------------------------
(* SpecMetrics: one user sending texts of two lengths and audio that the    *)
(* workers serve after zero or more milliseconds, and reading the metrics.  *)

MetricsTexts == {hi, hello}

NextMetrics ==
    \/ \E text \in MetricsTexts :
         nextReq <= MaxMetricsReqs
         /\ SendText(u1, text, undefined, undefined, now, now, now)
    \/ nextReq <= MaxMetricsReqs /\ GetMetrics
    \/ \E rid \in DOMAIN pending : \E t \in SteadyNow(now) :
         TranslateTextCallback(rid, "ok", 0, t, t, t)

SpecMetrics == Init /\ [][NextMetrics]_vars

-----------------------------------------------------------------------------
(* SpecTranslate: one user without a stored preference sending texts that  *)
(* are dictionary phrases, phrases of dictionary words and of other words, *)
(* padded and capitalised texts, between equal and different languages;    *)
(* a Translation Service that replies.                                     *)

world == <<"w", "o", "r", "l", "d">>
helloWorld == hello \o <<" ">> \o world
noWorld == no \o <<" ">> \o world
paddedHello == <<" ", "H", "e", "l", "l", "o">>

TransTexts == {hello, paddedHello, helloWorld, noWorld, world, no, hola, thankYou,
               constructor}
TransSources == {undefined, es}
TransTargets == {undefined, en, es, fr}

NextTranslate ==
    \/ \E text \in TransTexts, sourceLanguage \in TransSources,
          targetLanguage \in TransTargets :
         nextReq <= MaxTransReqs
         /\ SendText(u1, text, sourceLanguage, targetLanguage, now, now, now)
    \/ \E rid \in DOMAIN pending : TranslateTextCallback(rid, "ok", 0, now, now, now)

SpecTranslate == Init /\ [][NextTranslate]_vars
-----------------------------------------------------------------------------
(* SpecLive: text and audio requests, valid and invalid, of one user; the  *)
(* gRPC client calls the callback of every call it was given, with an      *)
(* error, a reply or the reply of the worker's catch block.                *)

LiveUserIds == {undefined, u1}
LiveTexts == {undefined, hello}
LiveFiles == {<<>>, <<2>>}
LiveAudioDatas == {undefined, AAAA}

\* The callback of request rid runs
WorkerReplies(rid) ==
    \E outcome \in RpcOutcomes :
      \/ TranslateTextCallback(rid, outcome, 0, now, now, now)
      \/ ProcessAudioCallback(rid, outcome, now, now, now)

NextLive ==
    \/ \E userId \in LiveUserIds, text \in LiveTexts :
         nextReq <= MaxLiveReqs
         /\ SendText(userId, text, undefined, undefined, now, now, now)
    \/ \E file \in LiveFiles, audioData \in LiveAudioDatas, userId \in LiveUserIds :
         nextReq <= MaxLiveReqs
         /\ SendAudio(file, audioData, userId, undefined, undefined, undefined,
                      now, now, now)
    \/ \E rid \in DOMAIN pending : WorkerReplies(rid)

\* A unary gRPC call ends by calling its callback
SpecLive ==
    Init /\ [][NextLive]_vars /\ \A rid \in 1 .. MaxLiveReqs : WF_vars(WorkerReplies(rid))
-----------------------------------------------------------------------------
(* SpecOrder: text and audio requests of two users in flight together, the *)
(* replies delivered in any order, under a clock that never steps back.    *)

NextOrder ==
    \/ \E userId \in LangUserIds : \E t \in SteadyNow(now) :
         nextReq <= MaxOrderReqs /\ SendText(userId, hello, undefined, undefined, t, t, t)
    \/ \E userId \in LangUserIds : \E t \in SteadyNow(now) :
         nextReq <= MaxOrderReqs
         /\ SendAudio(<<2>>, undefined, userId, undefined, undefined, undefined, t, t, t)
    \/ \E rid \in DOMAIN pending, outcome \in BatchOutcomes : \E t \in SteadyNow(now) :
         TranslateTextCallback(rid, outcome, 0, t, t, t)
    \/ \E rid \in DOMAIN pending, outcome \in BatchOutcomes : \E t \in SteadyNow(now) :
         ProcessAudioCallback(rid, outcome, t, t, t)

SpecOrder == Init /\ [][NextOrder]_vars
-----------------------------------------------------------------------------
(* Properties *)

\* The step sends request rid a response
Answers(rid) == Len(Responses(rid)') = Len(Responses(rid)) + 1

\* The last response sent to request rid
Answer(rid) == Last(Responses(rid))

SendOps == {"SendText", "SendAudio"}

Unavailable == {"Translation service unavailable", "Audio service unavailable"}

\* The response is a server error that names the worker as unavailable
WorkerUnavailable(r) ==
    r.op \in SendOps /\ r.status = 500 /\ ~r.body.success /\ r.body.error \in Unavailable

\* The callback of request rid runs with this outcome of the RPC
CallbackWith(rid, outcome) ==
    \/ TranslateTextCallback(rid, outcome, 0, now, now, now)
    \/ ProcessAudioCallback(rid, outcome, now, now, now)

\* C1: when the Translate or ProcessAudio callback delivers an RPC error, the
\* request is answered with a WorkerUnavailable error response, and the
\* history and the four sample lists stay as they were.
C1_WorkerFailureAppendsNothing ==
    [][\A rid \in DOMAIN pending :
         CallbackWith(rid, "error")
         => /\ Answers(rid)
            /\ WorkerUnavailable(Answer(rid)')
            /\ chatHistory' = chatHistory
            /\ performanceMetrics' = performanceMetrics]_vars

C1_Witness ==
    \E rid \in DOMAIN out :
      /\ Len(out[rid]) = 1 /\ WorkerUnavailable(out[rid][1])
      /\ chatHistory = <<>> /\ performanceMetrics = NoMetrics

\* C2: a worker reply without RPC error but with success = false is reported
\* as WorkerUnavailable and adds no history entry and no sample.
C2_UnsuccessfulReplyIsAnError ==
    [][\A rid \in DOMAIN pending :
         CallbackWith(rid, "caught")
         => /\ Answers(rid)
            /\ WorkerUnavailable(Answer(rid)')
            /\ chatHistory' = chatHistory
            /\ performanceMetrics' = performanceMetrics]_vars

\* The step leaves the preferences, the history, the samples and the calls
\* of the workers as they were
NoSideEffect ==
    /\ userLanguages' = userLanguages /\ chatHistory' = chatHistory
    /\ performanceMetrics' = performanceMetrics
    /\ pending' = pending /\ workerCalls' = workerCalls

Rejected(rid) == Answers(rid) /\ Answer(rid)'.status = 400 /\ ~Answer(rid)'.body.success

\* C3: a SetLanguage, SendText or SendAudio request without a required field
\* (undefined or empty: userId or language; userId or text; userId or audio
\* data) is answered with a client error, calls no worker and changes neither
\* the preferences nor the history nor the samples.
C3_MissingFieldRejected ==
    [][\A rid \in {nextReq} :
       /\ \A userId \in UserIds, language \in Languages :
            (SetLanguage(userId, language, now, now) /\ (Falsy(userId) \/ Falsy(language)))
            => (Rejected(rid) /\ NoSideEffect)
       /\ \A userId \in UserIds, text \in Texts :
            (SendText(userId, text, undefined, undefined, now, now, now)
             /\ (Falsy(userId) \/ Falsy(text)))
            => (Rejected(rid) /\ NoSideEffect)
       /\ \A file \in Files, audioData \in AudioDatas, userId \in UserIds :
            (SendAudio(file, audioData, userId, undefined, undefined, undefined,
                       now, now, now)
             /\ (Falsy(userId) \/ (file = <<>> /\ Falsy(audioData))))
            => (Rejected(rid) /\ NoSideEffect)]_vars

C3_Witness ==
    /\ \E rid \in DOMAIN out : out[rid][1].op = "SendText" /\ out[rid][1].status = 400
    /\ \E rid \in DOMAIN out : out[rid][1].op = "SendAudio" /\ out[rid][1].status = 400
    /\ workerCalls = [r \in {} |-> 0]

\* C4: in every state, for text and for audio, there are as many gateway-hop
\* (rest) samples as worker-hop (grpc) samples.
C4_SampleCountsAgree ==
    /\ Len(performanceMetrics.rest.text) = Len(performanceMetrics.grpc.text)
    /\ Len(performanceMetrics.rest.audio) = Len(performanceMetrics.grpc.audio)

C4_Witness ==
    /\ Len(performanceMetrics.rest.text) = 1
    /\ Len(performanceMetrics.rest.audio) = 1

\* C5: a step that sends a SendText success response appends exactly one text
\* entry to the history and one sample to each of the two text lists, leaves
\* the audio lists alone, and the messageId of the response is the id of the
\* appended entry.
C5_SuccessfulSendTextAppendsOnce ==
    [][\A rid \in DOMAIN pending :
         (Answers(rid) /\ Answer(rid)'.op = "SendText" /\ Answer(rid)'.status = 200)
         => /\ Len(chatHistory') = Len(chatHistory) + 1
            /\ SubSeq(chatHistory', 1, Len(chatHistory)) = chatHistory
            /\ Last(chatHistory').type = "text"
            /\ Last(chatHistory').id = Answer(rid)'.body.messageId
            /\ \A i \in 1 .. Len(chatHistory) : chatHistory[i].id # Last(chatHistory').id
            /\ Len(performanceMetrics'.rest.text) = Len(performanceMetrics.rest.text) + 1
            /\ Len(performanceMetrics'.grpc.text) = Len(performanceMetrics.grpc.text) + 1
            /\ SubSeq(performanceMetrics'.rest.text, 1, Len(performanceMetrics.rest.text))
                 = performanceMetrics.rest.text
            /\ SubSeq(performanceMetrics'.grpc.text, 1, Len(performanceMetrics.grpc.text))
                 = performanceMetrics.grpc.text
            /\ performanceMetrics'.rest.audio = performanceMetrics.rest.audio
            /\ performanceMetrics'.grpc.audio = performanceMetrics.grpc.audio]_vars

C5_Witness ==
    /\ Len(chatHistory) = 2
    /\ \E rid \in DOMAIN out :
         /\ out[rid][1].op = "SendText" /\ out[rid][1].status = 200
         /\ out[rid][1].body.messageId = chatHistory[2].id
         /\ chatHistory[2].type = "text"

\* The effective target language of the claim: the explicit one if given,
\* else the stored preference of the user if there is one, else "es"
EffectiveTarget(targetLanguage, userId) ==
    IF targetLanguage # undefined /\ targetLanguage # <<>> THEN targetLanguage
    ELSE IF userId \in DOMAIN userLanguages THEN userLanguages[userId]
    ELSE es

\* The language a success response echoes for the result
EchoedLanguage(r) ==
    IF r.op = "SendText" THEN r.body.translated.language ELSE r.body.processed.language

\* C6: the target language sent to the worker is the explicit targetLanguage
\* if one is given, else the preference stored for the userId, else "es"; the
\* history entry and the response carry the value that was sent to the worker.
C6_EffectiveTargetLanguage ==
    [][/\ \A rid \in {nextReq} : \A userId \in LangUserIds, targetLanguage \in LangTargets :
            (\/ SendText(userId, hello, undefined, targetLanguage, now, now, now)
             \/ SendAudio(<<2>>, undefined, userId, undefined, targetLanguage, undefined,
                          now, now, now))
            => pending'[rid].grpcRequest.target_language
                 = EffectiveTarget(targetLanguage, userId)
       /\ \A rid \in DOMAIN pending :
            (Answers(rid) /\ Answer(rid)'.status = 200)
            => /\ Len(chatHistory') = Len(chatHistory) + 1
               /\ Last(chatHistory').targetLanguage
                    = pending[rid].grpcRequest.target_language
               /\ EchoedLanguage(Answer(rid)')
                    = pending[rid].grpcRequest.target_language]_vars

\* With the preference fr stored for u1 (the only SetLanguage of the run), one
\* request of u1 was served in en (explicit) and one in fr (the preference).
C6_Witness ==
    /\ u1 \in DOMAIN userLanguages /\ userLanguages[u1] = fr
    /\ Len(chatHistory) = 2
    /\ \E i, j \in 1 .. 2 :
         /\ chatHistory[i].userId = u1 /\ chatHistory[i].targetLanguage = en
         /\ chatHistory[j].userId = u1 /\ chatHistory[j].targetLanguage = fr

\* The requests answered by a successful SetLanguage of user u
SetRequests(u) ==
    {rid \in DOMAIN out : /\ out[rid][1].op = "SetLanguage"
                          /\ out[rid][1].status = 200
                          /\ out[rid][1].body.userId = u}

\* The language of the most recent successful SetLanguage of user u (requests
\* are numbered in the order they arrive, and SetLanguage answers on arrival)
LastSetLanguage(u) ==
    LET last == CHOOSE rid \in SetRequests(u) : \A other \in SetRequests(u) : other <= rid
    IN  out[last][1].body.language

\* C7: a SendText of user u without targetLanguage sends the worker the
\* language of the most recent successful SetLanguage of u, whatever was
\* set before it and whatever was set for other users.
C7_LastWriteWins ==
    [][\A rid \in {nextReq} : \A userId \in LangUserIds :
         (SendText(userId, hello, undefined, undefined, now, now, now)
          /\ SetRequests(userId) # {})
         => pending'[rid].grpcRequest.target_language = LastSetLanguage(userId)]_vars

\* SetLanguage(u1, en), then SetLanguage(u1, fr), then a SendText of u1 that
\* is sent to the worker with fr (no request of SpecLang asks for fr explicitly).
C7_Witness ==
    /\ 3 \in DOMAIN pending /\ pending[3].op = "SendText" /\ pending[3].userId = u1
    /\ pending[3].grpcRequest.target_language = fr
    /\ SetRequests(u1) = {1, 2}
    /\ out[1][1].body.language = en /\ out[2][1].body.language = fr

\* The responses that report a served text or audio request
Served ==
    {r \in UNION {{out[rid][i] : i \in 1 .. Len(out[rid])} : rid \in DOMAIN out} :
       r.op \in SendOps /\ r.status = 200}

\* C8: the gateway overhead of a success response is total elapsed minus
\* worker-hop elapsed, and zero when that difference is negative.
C8_OverheadClamped ==
    \A r \in Served :
      r.body.performance.gatewayOverhead
        = Max(r.body.performance.totalResponseTime - r.body.performance.grpcServiceTime, 0)

\* The average of the worker-hop times is 0 (no sample, or times that sum to 0)
WorkerAverageZero(samples) == SumSeq(Times(samples)) = 0

\* C9: whenever the worker-hop average time of a category is 0, the speed
\* improvement GetMetrics reports for the category is "No data".
C9_NoDataWhenWorkerAverageZero ==
    [][\A rid \in {nextReq} :
         (Answers(rid) /\ Answer(rid)'.op = "GetMetrics")
         => /\ WorkerAverageZero(performanceMetrics.grpc.text)
               => Answer(rid)'.body.metrics.analysis.textSpeedImprovement = "No data"
            /\ WorkerAverageZero(performanceMetrics.grpc.audio)
               => Answer(rid)'.body.metrics.analysis.audioSpeedImprovement = "No data"]_vars

ZeroAverages == [avgResponseTime |-> "0.00", avgPayloadSize |-> "0", sampleCount |-> 0]

\* C10: with no sample recorded, GetMetrics succeeds and reports count 0 and
\* average 0 for every category and protocol and "No data" for both speed
\* improvements.
C10_EmptyMetrics ==
    [][\A rid \in {nextReq} :
         (Answers(rid) /\ Answer(rid)'.op = "GetMetrics" /\ performanceMetrics = NoMetrics)
         => LET r == Answer(rid)' IN
            /\ r.status = 200 /\ r.body.success
            /\ r.body.metrics.text.rest = ZeroAverages
            /\ r.body.metrics.text.grpc = ZeroAverages
            /\ r.body.metrics.audio.rest = ZeroAverages
            /\ r.body.metrics.audio.grpc = ZeroAverages
            /\ r.body.metrics.analysis.textSpeedImprovement = "No data"
            /\ r.body.metrics.analysis.audioSpeedImprovement = "No data"]_vars

C10_Witness ==
    /\ performanceMetrics = NoMetrics
    /\ \E rid \in DOMAIN out : out[rid][1].op = "GetMetrics" /\ out[rid][1].status = 200

-----------------------------------------------------------------------------
(* Payload sizes (SpecSize) *)

\* The percentages 0.0% .. 100.0%, written with one fraction digit
Percentages ==
    {ToString(t \div 10) \o "." \o ToString(t % 10) \o "%" : t \in 0 .. 1000}

\* C11: every successful SendText and SendAudio reports a size reduction
\* between 0% and 100%, and a worker payload size strictly smaller than the
\* gateway payload size whenever the latter is greater than 0.
C11_SizeReductionInRange ==
    \A r \in Served :
      LET p == r.body.performance IN
      /\ p.sizeReduction \in Percentages
      /\ p.restPayloadSize > 0 => p.grpcPayloadSize < p.restPayloadSize

\* A served text and a served audio of zero bytes (the largest reduction)
C11_Witness ==
    \E r1, r2 \in Served :
      /\ r1.op = "SendText"
      /\ r2.op = "SendAudio" /\ r2.body.original.size = 0
      /\ r2.body.performance.sizeReduction = "75.0%"

\* ceil(n / 3)
Ceil3(n) == (n \div 3) + (IF n % 3 = 0 THEN 0 ELSE 1)

\* The bytes a padded base64 string encodes: three for every four characters,
\* less one for every "="
RawBytes(audioData) ==
    3 * (Len(audioData) \div 4)
    - Cardinality({i \in 1 .. Len(audioData) : audioData[i] = "="})

\* The raw bytes of the audio of a request
RawLength(file, audioData) == IF file # <<>> THEN file[1] ELSE RawBytes(audioData)

\* The percentages 25.0% .. 26.0%
About25 == {ToString(t \div 10) \o "." \o ToString(t % 10) \o "%" : t \in 250 .. 260}

\* C12: for audio of n raw bytes, uploaded or sent as base64, SendAudio
\* computes and reports gateway payload size 4 * ceil(n / 3) + 200 and worker
\* payload size n + 50; for n = 10240 the reported reduction is about 25%.
C12_AudioPayloadSizes ==
    [][/\ \A rid \in {nextReq} :
          \A contentLength \in ContentLengths, file \in SizeFiles,
             audioData \in SizeAudioDatas :
            (/\ PostAudio(contentLength, file, audioData, u1, undefined, undefined,
                          undefined, now, now, now)
             /\ rid \in DOMAIN pending')
            => LET n == RawLength(file, audioData) IN
               /\ pending'[rid].restPayloadSize = 4 * Ceil3(n) + 200
               /\ pending'[rid].grpcPayloadSize = n + 50
       /\ \A rid \in DOMAIN pending :
            (Answers(rid) /\ Answer(rid)'.op = "SendAudio" /\ Answer(rid)'.status = 200)
            => LET p == Answer(rid)'.body.performance IN
               /\ p.restPayloadSize = pending[rid].restPayloadSize
               /\ p.grpcPayloadSize = pending[rid].grpcPayloadSize
               /\ Answer(rid)'.body.original.size = 10240
                  => p.sizeReduction \in About25]_vars

\* An upload of 10240 bytes and one byte of audio sent as base64 were served
C12_Witness ==
    \E r1, r2 \in Served :
      /\ r1.op = "SendAudio" /\ r1.body.original.size = 10240
      /\ r1.body.performance.restPayloadSize = 13856
      /\ r1.body.performance.grpcPayloadSize = 10290
      /\ r1.body.performance.sizeReduction = "25.7%"
      /\ r2.op = "SendAudio" /\ r2.body.original.size = 1
      /\ r2.body.performance.restPayloadSize = 204

\* The audio of the request is larger than the bound of its input path
Oversize(contentLength, file) ==
    \/ file = <<>> /\ contentLength > 50 * 1024 * 1024
    \/ file # <<>> /\ file[1] > 50 * 1024 * 1024

\* C13: audio larger than 50 MiB is rejected with a client-class error that is
\* not a WorkerUnavailable error, without a call of the worker and without a
\* history entry or a sample.
C13_OversizeIsClientError ==
    [][\A rid \in {nextReq} :
         \A contentLength \in ContentLengths, file \in SizeFiles,
            audioData \in SizeAudioDatas :
           (/\ PostAudio(contentLength, file, audioData, u1, undefined, undefined,
                         undefined, now, now, now)
            /\ Oversize(contentLength, file))
           => /\ Rejected(rid)
              /\ ~WorkerUnavailable(Answer(rid)')
              /\ NoSideEffect]_vars

-----------------------------------------------------------------------------
(* History (SpecHistory, Spec) *)

\* The positions of the history entries a filter selects
MatchingIndices(userId) ==
    {i \in 1 .. Len(chatHistory) : userId = undefined \/ chatHistory[i].userId = userId}

\* The k-th smallest member of a set of numbers
Nth(S, k) == CHOOSE i \in S : Cardinality({j \in S : j <= i}) = k

\* C14: GetHistory with a positive limit (50 when none is given) returns the
\* last min(limit, m) of the m entries the userId filter selects (all entries
\* without a filter), in insertion order.
C14_LastEntriesInOrder ==
    [][\A rid \in {nextReq} : \A userId \in HistUserIds, limit \in HistLimits :
         (GetHistory(userId, limit) /\ (limit = <<>> \/ limit[1] > 0))
         => LET S == MatchingIndices(userId)
                m == Cardinality(S)
                k == Min(IF limit = <<>> THEN 50 ELSE limit[1], m)
                r == Answer(rid)'
            IN  /\ Answers(rid) /\ r.status = 200
                /\ r.body.count = k /\ Len(r.body.messages) = k
                /\ \A j \in 1 .. k : r.body.messages[j] = chatHistory[Nth(S, m - k + j)]]_vars

\* With entries of u1, u2 and u1 in the history, a GetHistory returned
\* exactly the two entries of u1, the older one first.
C14_Witness ==
    /\ Len(chatHistory) = 3
    /\ chatHistory[1].userId = u1 /\ chatHistory[2].userId = u2 /\ chatHistory[3].userId = u1
    /\ \E rid \in DOMAIN out :
         /\ out[rid][1].op = "GetHistory"
         /\ out[rid][1].body.messages = <<chatHistory[1], chatHistory[3]>>

\* C15: every step leaves the history it finds as a prefix of the history it
\* leaves, so no entry is ever removed, reordered or modified; a GetHistory
\* step leaves the history as it is.
C15_HistoryAppendOnly ==
    [][/\ Len(chatHistory') >= Len(chatHistory)
       /\ SubSeq(chatHistory', 1, Len(chatHistory)) = chatHistory
       /\ \A rid \in {nextReq} :
            (Answers(rid) /\ Answer(rid)'.op = "GetHistory") => chatHistory' = chatHistory]_vars

\* A text entry and an audio entry were appended one after the other
C15_Witness ==
    /\ Len(chatHistory) = 2
    /\ chatHistory[1].id = 1 /\ chatHistory[2].id = 2
    /\ {chatHistory[1].type, chatHistory[2].type} = {"text", "audio"}

-----------------------------------------------------------------------------
(* Concurrent batches (SpecBatch) *)

\* "Test message i" and what the worker makes of it from en to es: no word
\* of it is in the mappings, so the text comes back behind the marker [ES]
ExpectedText(i) ==
    <<"T", "e", "s", "t", " ", "m", "e", "s", "s", "a", "g", "e", " ", ToString(i)>>
ExpectedTranslation(i) == <<"[", "E", "S", "]", " ">> \o ExpectedText(i)

\* C16: a batch of N >= 1 starts N calls with the texts "Test message 1" ..
\* "Test message N", en to es, before it answers; it answers with success only
\* at the last reply, and then with N results in index order, result i carrying
\* the translation of "Test message i" when the worker translated every text.
C16_BatchResultsOrdered ==
    [][/\ \A rid \in {nextReq} : \A messages \in 1 .. MaxBatchSize :
            RunConcurrentBatch(messages, now, now, now)
            => /\ workerCalls'[rid] = messages
               /\ Responses(rid)' = <<>>
               /\ Len(pending'[rid].requests) = messages
               /\ \A i \in 1 .. messages :
                    /\ pending'[rid].requests[i].text = ExpectedText(i)
                    /\ pending'[rid].requests[i].source_language = en
                    /\ pending'[rid].requests[i].target_language = es
       /\ \A rid \in DOMAIN pending, i \in 1 .. MaxBatchSize, outcome \in BatchOutcomes :
            (/\ BatchCallback(rid, i, outcome, 0, now)
             /\ Answers(rid) /\ Answer(rid)'.status = 200)
            => LET N == pending[rid].messages
                   results == Answer(rid)'.body.results
               IN  /\ pending[rid].outstanding = {i}
                   /\ Answer(rid)'.body.messagesProcessed = N
                   /\ Len(results) = N
                   /\ \A k \in 1 .. N : results[k].message = k
                   /\ (/\ outcome = "ok"
                       /\ \A k \in (1 .. N) \ {i} :
                            pending[rid].promises[k] # <<>>
                            => pending[rid].promises[k][1].success)
                      => \A k \in 1 .. N : results[k].translated = ExpectedTranslation(k)]_vars

\* A batch of two was answered with both translations in index order
C16_Witness ==
    \E rid \in DOMAIN out :
      /\ out[rid][1].op = "RunConcurrentBatch" /\ out[rid][1].status = 200
      /\ Len(out[rid][1].body.results) = 2
      /\ out[rid][1].body.results[1].translated = ExpectedTranslation(1)
      /\ out[rid][1].body.results[2].translated = ExpectedTranslation(2)

\* C17: the first RPC error of a batch answers the whole batch with one
\* failure response without results, whatever the other calls did or will
\* do; a batch is answered once, and with success only by its last reply
\* when no call delivered an error.
C17_BatchAllOrNothing ==
    [][\A rid \in DOMAIN pending, i \in 1 .. MaxBatchSize, outcome \in BatchOutcomes :
         BatchCallback(rid, i, outcome, 0, now)
         => /\ (outcome = "error" /\ Responses(rid) = <<>>)
               => /\ Answers(rid)
                  /\ Answer(rid)'.status = 500 /\ ~Answer(rid)'.body.success
                  /\ "results" \notin DOMAIN Answer(rid)'.body
            /\ Responses(rid) # <<>> => out' = out
            /\ (Answers(rid) /\ Answer(rid)'.status = 200)
               => outcome # "error" /\ pending[rid].outstanding = {i}]_vars

\* A batch of two has been answered with the failure while its other call
\* is still in flight
C17_Witness ==
    \E rid \in DOMAIN out \cap DOMAIN pending :
      /\ pending[rid].op = "RunConcurrentBatch" /\ pending[rid].outstanding # {}
      /\ Len(out[rid]) = 1 /\ out[rid][1].status = 500 /\ ~out[rid][1].body.success

\* C18: a batch whose count is 0, negative or above 1000 calls no worker and
\* is answered with an error, not with a success response.
C18_BatchCountValidated ==
    [][\A rid \in {nextReq} : \A messages \in BatchSizes :
         (RunConcurrentBatch(messages, now, now, now) /\ (messages < 1 \/ messages > 1000))
         => /\ workerCalls' = workerCalls
            /\ Answers(rid)
            /\ Answer(rid)'.status # 200 /\ ~Answer(rid)'.body.success]_vars

-----------------------------------------------------------------------------
(* Error responses (Spec) *)

\* The responses sent so far
Sent == UNION {{out[rid][i] : i \in 1 .. Len(out[rid])} : rid \in DOMAIN out}

\* The failure an error response reports, by the path of the code that sent it
FailurePath(r) ==
    IF r.status = 400 THEN "ValidationError"
    ELSE IF r.body.error = "Internal server error" THEN "PayloadTooLarge"
    ELSE IF r.op = "RunConcurrentBatch" THEN "BatchPartialFailure"
    ELSE "WorkerUnavailable"

\* What an error response carries besides its human-readable texts: the
\* status, the names of its fields and the success flag
FailureKind(r) == <<r.status, DOMAIN r.body, r.body.success>>

-----------------------------------------------------------------------------
(* Aggregate metrics (SpecMetrics) *)

\* h hundredths, written with two fraction digits
Hundredths(h) ==
    (IF h < 0 THEN "-" ELSE "") \o ToString(Abs(h) \div 100) \o "."
    \o ToString((Abs(h) % 100) \div 10) \o ToString(Abs(h) % 10)

\* Bounds of the means of SpecMetrics: milliseconds and bytes
MeanTimes == -2 .. 2
MeanSizes == 0 .. 300

\* s is the arithmetic mean of the values rounded to two fraction digits,
\* "0.00" when there is none
IsMeanTime(s, values) ==
    IF values = <<>> THEN s = "0.00"
    ELSE \E h \in {100 * t + c : t \in MeanTimes, c \in 0 .. 99} :
           /\ s = Hundredths(h)
           /\ 2 * Abs(100 * SumSeq(values) - h * Len(values)) <= Len(values)

\* s is the arithmetic mean of the values rounded to a whole number, "0" when
\* there is none
IsMeanSize(s, values) ==
    IF values = <<>> THEN s = "0"
    ELSE \E k \in MeanSizes :
           /\ s = ToString(k)
           /\ 2 * Abs(SumSeq(values) - k * Len(values)) <= Len(values)

\* The averages reported for a sample list are the means over all its samples
IsAggregate(a, samples) ==
    /\ a.sampleCount = Len(samples)
    /\ IsMeanTime(a.avgResponseTime, Times(samples))
    /\ IsMeanSize(a.avgPayloadSize, Sizes(samples))

\* No SendText or SendAudio has completed since the metrics m were reported
NoCompletionSince(m) ==
    /\ m.text.rest.sampleCount = Len(performanceMetrics.rest.text)
    /\ m.audio.rest.sampleCount = Len(performanceMetrics.rest.audio)

\* C20: GetMetrics changes neither the samples nor the history nor the
\* preferences; every average it reports is the arithmetic mean over all
\* samples of the list; and it reports what an earlier GetMetrics reported
\* when no SendText or SendAudio completed in between.
C20_GetMetricsIdempotent ==
    [][\A rid \in {nextReq} :
         (Answers(rid) /\ Answer(rid)'.op = "GetMetrics")
         => LET m == Answer(rid)'.body.metrics IN
            /\ performanceMetrics' = performanceMetrics
            /\ chatHistory' = chatHistory
            /\ userLanguages' = userLanguages
            /\ IsAggregate(m.text.rest, performanceMetrics.rest.text)
            /\ IsAggregate(m.text.grpc, performanceMetrics.grpc.text)
            /\ IsAggregate(m.audio.rest, performanceMetrics.rest.audio)
            /\ IsAggregate(m.audio.grpc, performanceMetrics.grpc.audio)
            /\ \A earlier \in DOMAIN out :
                 (/\ out[earlier][1].op = "GetMetrics"
                  /\ NoCompletionSince(out[earlier][1].body.metrics))
                 => m = out[earlier][1].body.metrics]_vars

\* Two GetMetrics in a row after two texts of different sizes served in 0 and
\* 1 ms: both report the mean 0.50 ms, and 72 bytes or 73 bytes
C20_Witness ==
    /\ Len(performanceMetrics.rest.text) = 2
    /\ \E r1, r2 \in DOMAIN out :
         /\ r1 < r2
         /\ out[r1][1].op = "GetMetrics" /\ out[r2][1].op = "GetMetrics"
         /\ out[r1][1].body.metrics = out[r2][1].body.metrics
         /\ out[r1][1].body.metrics.text.rest.sampleCount = 2
         /\ out[r1][1].body.metrics.text.rest.avgResponseTime = "0.50"
         /\ out[r1][1].body.metrics.text.rest.avgPayloadSize \in {"72", "73"}

\* The language the preferences written so far give user u: the one of the
\* most recent successful SetLanguage of u, "en" when there was none
PreferenceOrEn(u) == IF SetRequests(u) # {} THEN LastSetLanguage(u) ELSE en

\* C21: every GET of a user's language is answered 200 with success, with the
\* language of the last successful SetLanguage of that user or "en" when no
\* preference was ever set for it, and leaves the stored preferences as they were.
C21_GetLanguageTotal ==
    [][\A rid \in {nextReq} :
         (Answers(rid) /\ Answer(rid)'.op = "GetLanguage")
         => /\ Answer(rid)'.status = 200
            /\ Answer(rid)'.body.success
            /\ Answer(rid)'.body.language = PreferenceOrEn(Answer(rid)'.body.userId)
            /\ userLanguages' = userLanguages]_vars

\* The language of u1 was read before any preference was set ("en"), then set
\* to fr, then read again ("fr"); u2 still has no preference.
C21_Witness ==
    /\ DOMAIN out = {1, 2, 3}
    /\ out[1][1].op = "GetLanguage" /\ out[1][1].body.userId = u1
    /\ out[1][1].body.language = en
    /\ out[2][1].op = "SetLanguage" /\ out[2][1].status = 200
    /\ out[3][1].op = "GetLanguage" /\ out[3][1].body.userId = u1
    /\ out[3][1].body.language = fr
    /\ DOMAIN userLanguages = {u1}

\* The request of the step's callback asks for a translation between these languages
Translates(rid) ==
    /\ rid \in DOMAIN pending /\ pending[rid].op = "SendText"
    /\ Answers(rid) /\ Answer(rid)'.status = 200

\* C22: a text request whose source language equals its target language is
\* answered with the original text as the translation, character for
\* character, in the response and in the history entry, also when the text is
\* padded, capitalised or a phrase of some dictionary.
C22_SameLanguageUnchanged ==
    [][\A rid \in DOMAIN pending :
         (Translates(rid) /\ pending[rid].sourceLanguage = pending[rid].targetLang)
         => /\ Answer(rid)'.body.translated.text = pending[rid].text
            /\ Answer(rid)'.body.original.text = pending[rid].text
            /\ Last(chatHistory').translatedText = pending[rid].text]_vars

\* " Hello" sent from en to en came back as " Hello", and "hola" (a phrase of
\* the es-en dictionary) is returned as it is between es and es.
C22_Witness ==
    \E rid \in DOMAIN out :
      /\ out[rid][1].status = 200
      /\ out[rid][1].body.original.language = out[rid][1].body.translated.language
      /\ out[rid][1].body.original.text \in {paddedHello, hola}
      /\ out[rid][1].body.translated.text = out[rid][1].body.original.text

\* The mappings object of a language pair
Mappings(sourceLang, targetLang) ==
    IF Key(sourceLang, targetLang) \in DOMAIN TRANSLATIONS
    THEN TRANSLATIONS[Key(sourceLang, targetLang)] ELSE EmptyObject

\* The language codes in capitals
TargetCodes == (en :> <<"E", "N">>) @@ (es :> <<"E", "S">>) @@ (fr :> <<"F", "R">>)

\* "[TARGET] " followed by the original text
Marked(text, targetLang) == <<"[">> \o TargetCodes[targetLang] \o <<"]", " ">> \o text

\* The lower-cased trimmed phrase
Normalized(text) == trim(toLowerCase(text))

\* The mappings give nothing for the phrase and change none of its words
NothingTranslates(text, sourceLang, targetLang) ==
    LET mappings == Mappings(sourceLang, targetLang)
        words == split(Normalized(text))
    IN  /\ Falsy(Lookup(mappings, Normalized(text)))
        /\ \A i \in 1 .. Len(words) :
             Falsy(Lookup(mappings, words[i])) \/ Lookup(mappings, words[i]) = words[i]

\* C23 as stated: whenever the mappings of the source-target pair have no
\* entry for the input phrase, the translation is "[TARGET] " followed by the
\* original text.
C23_MarkerWhenNoPhraseEntry ==
    [][\A rid \in DOMAIN pending :
         (/\ Translates(rid)
          /\ pending[rid].sourceLanguage # pending[rid].targetLang
          /\ Falsy(Lookup(Mappings(pending[rid].sourceLanguage, pending[rid].targetLang),
                          Normalized(pending[rid].text))))
         => Answer(rid)'.body.translated.text
              = Marked(pending[rid].text, pending[rid].targetLang)]_vars

\* C23, amended: between different languages the translation is "[TARGET] "
\* followed by the original text exactly when the mappings of the pair give
\* nothing for the normalized phrase and change none of its words.
C23_MarkerWhenNothingTranslates ==
    [][\A rid \in DOMAIN pending :
         (Translates(rid) /\ pending[rid].sourceLanguage # pending[rid].targetLang)
         => ((Answer(rid)'.body.translated.text
                = Marked(pending[rid].text, pending[rid].targetLang))
             <=> NothingTranslates(pending[rid].text, pending[rid].sourceLanguage,
                                   pending[rid].targetLang))]_vars

\* "world" from en to es came back as "[ES] world", or "no world", whose word
\* "no" the dictionary maps to itself, as "[ES] no world".
C23_Witness ==
    \E rid \in DOMAIN out :
      /\ out[rid][1].status = 200
      /\ out[rid][1].body.original.language = en
      /\ out[rid][1].body.translated.language = es
      /\ \/ /\ out[rid][1].body.original.text = world
            /\ out[rid][1].body.translated.text = <<"[", "E", "S", "]", " ">> \o world
         \/ /\ out[rid][1].body.original.text = noWorld
            /\ out[rid][1].body.translated.text = <<"[", "E", "S", "]", " ">> \o noWorld

\* The entry of the dictionary for k, if the dictionary has the key k
Entry(dictionary, k) == IF k \in DOMAIN dictionary THEN dictionary[k] ELSE k

\* The reference of the claim for different languages: the entry of the
\* normalized phrase if it is a key; else the words that are keys replaced by
\* their entries, and the marked original text when that changes nothing
ReferenceTranslation(text, sourceLang, targetLang) ==
    LET dictionary == Mappings(sourceLang, targetLang)
        words == split(Normalized(text))
        wordByWord == join([i \in 1 .. Len(words) |-> Entry(dictionary, words[i])])
    IN  IF Normalized(text) \in DOMAIN dictionary THEN dictionary[Normalized(text)]
        ELSE IF wordByWord = Normalized(text) THEN Marked(text, targetLang)
        ELSE wordByWord

\* C24: between different languages the translation returned for a text is
\* the one of the reference: the dictionary entry of the normalized phrase,
\* else the word-by-word substitution, else the marked original text.
C24_MatchesReference ==
    [][\A rid \in DOMAIN pending :
         (Translates(rid) /\ pending[rid].sourceLanguage # pending[rid].targetLang)
         => Answer(rid)'.body.translated.text
              = ReferenceTranslation(pending[rid].text, pending[rid].sourceLanguage,
                                     pending[rid].targetLang)]_vars

\* C25: no text or audio request is sent two responses, the worker is called
\* at most once for a request, and every request that arrived is eventually
\* sent its response, given that the worker's callback eventually runs.
C25_AnsweredExactlyOnce ==
    /\ [](\A rid \in DOMAIN out : Len(out[rid]) <= 1)
    /\ [](\A rid \in DOMAIN workerCalls : workerCalls[rid] <= 1)
    /\ \A rid \in 1 .. MaxLiveReqs :
         (rid < nextReq) ~> (Len(Responses(rid)) = 1 /\ rid \notin DOMAIN pending)

\* Both requests were passed to a worker once and both are answered, one with
\* the error of a failed call and one with a result.
C25_Witness ==
    /\ DOMAIN workerCalls = {1, 2} /\ workerCalls[1] = 1 /\ workerCalls[2] = 1
    /\ pending = <<>>
    /\ Len(Responses(1)) = 1 /\ Len(Responses(2)) = 1
    /\ {out[1][1].status, out[2][1].status} = {200, 500}

\* The preference stored for the user of request rid is not the language the
\* worker was sent for it
PreferenceMoved(rid) ==
    MapGet(userLanguages, pending[rid].userId) # pending[rid].grpcRequest.target_language

\* C26: a SetLanguage leaves the requests in flight as they are, and a request
\* whose user's preference was changed while it waited for the worker is
\* answered and recorded with the target language that was sent to the worker,
\* not with the preference stored at the time of the reply.
C26_InFlightKeepsTarget ==
    [][/\ (\E userId \in LangUserIds, language \in LangLanguages :
             SetLanguage(userId, language, now, now))
          => pending' = pending
       /\ \A rid \in DOMAIN pending :
            (Answers(rid) /\ Answer(rid)'.status = 200 /\ PreferenceMoved(rid))
            => /\ Last(chatHistory').targetLanguage
                    = pending[rid].grpcRequest.target_language
               /\ EchoedLanguage(Answer(rid)')
                    = pending[rid].grpcRequest.target_language]_vars

\* u1 set fr, sent a request without targetLanguage, then set en while the
\* request waited: the request is recorded and answered with fr.
C26_Witness ==
    /\ DOMAIN out = {1, 2, 3}
    /\ out[1][1].op = "SetLanguage" /\ out[1][1].body.language = fr
    /\ out[3][1].op = "SetLanguage" /\ out[3][1].body.language = en
    /\ out[1][1].body.userId = u1 /\ out[3][1].body.userId = u1
    /\ out[2][1].op \in SendOps /\ out[2][1].status = 200
    /\ EchoedLanguage(out[2][1]) = fr
    /\ Len(chatHistory) = 1 /\ chatHistory[1].targetLanguage = fr
    /\ userLanguages[u1] = en

\* The timestamps never decrease along the history
Chronological(history) ==
    \A i, j \in 1 .. Len(history) : i < j => history[i].timestamp <= history[j].timestamp

\* C27: under a clock that never steps back, the entry of a served request is
\* put at the end of the history when its reply is delivered, whatever the
\* order in which the requests arrived, and the timestamps never decrease
\* along the history.
C27_HistoryInReplyOrder ==
    [][\A rid \in DOMAIN pending :
         (Answers(rid) /\ Answer(rid)'.status = 200)
         => /\ Len(chatHistory') = Len(chatHistory) + 1
            /\ SubSeq(chatHistory', 1, Len(chatHistory)) = chatHistory
            /\ Last(chatHistory').id = Answer(rid)'.body.messageId
            /\ Chronological(chatHistory')]_vars

\* The second request was served before the first, at an earlier reading of
\* the clock: its entry comes first in the history.
C27_Witness ==
    /\ DOMAIN out = {1, 2} /\ Len(chatHistory) = 2
    /\ out[1][1].status = 200 /\ out[2][1].status = 200
    /\ out[2][1].body.messageId = chatHistory[1].id
    /\ out[1][1].body.messageId = chatHistory[2].id
    /\ chatHistory[1].timestamp < chatHistory[2].timestamp

\* The entries of the history of one type
EntriesOfType(type) == {i \in 1 .. Len(chatHistory) : chatHistory[i].type = type}

\* C28: in every state the history has as many text entries as each of the
\* two text sample lists has samples, and as many audio entries as each of
\* the two audio sample lists; a batch adds neither entries nor samples.
C28_EntriesMatchSamples ==
    \A kind \in {"text", "audio"} :
      /\ Cardinality(EntriesOfType(kind)) = Len(performanceMetrics.rest[kind])
      /\ Cardinality(EntriesOfType(kind)) = Len(performanceMetrics.grpc[kind])

\* One text and one audio request were served, in either order: one entry of
\* each type and one sample in each of the four lists.
C28_Witness ==
    /\ Cardinality(EntriesOfType("text")) = 1
    /\ Cardinality(EntriesOfType("audio")) = 1
    /\ Len(performanceMetrics.grpc.text) = 1
    /\ Len(performanceMetrics.grpc.audio) = 1
    /\ pending = <<>>

\* C29: GetHistory with a limit of zero or more returns at most limit
\* messages (none when the limit is 0), and the count it reports is the
\* number of messages it returns.
C29_NeverMoreThanLimit ==
    [][\A rid \in {nextReq} : \A userId \in HistUserIds, limit \in HistLimits :
         (GetHistory(userId, limit) /\ limit # <<>>)
         => /\ Len(Answer(rid)'.body.messages) <= limit[1]
            /\ Answer(rid)'.body.count = Len(Answer(rid)'.body.messages)]_vars

\* A text or audio request of the user arrives without a targetLanguage
SendsWithoutTarget(userId) ==
    \E targetLanguage \in {undefined, <<>>} :
      \/ SendText(userId, hello, undefined, targetLanguage, now, now, now)
      \/ SendAudio(<<2>>, undefined, userId, undefined, targetLanguage, undefined,
                   now, now, now)

\* C30 as stated: a request without targetLanguage of a user without stored
\* preference is sent to the worker with the language GetLanguage reports
\* for that user.
C30_DefaultsAgree ==
    [][\A rid \in {nextReq} : \A userId \in LangUserIds :
         (SendsWithoutTarget(userId) /\ userId \notin DOMAIN userLanguages)
         => pending'[rid].grpcRequest.target_language = PreferenceOrEn(userId)]_vars

\* C30, amended: for a user without stored preference a request without
\* targetLanguage is sent to the worker with "es" while GetLanguage reports
\* "en"; with a stored preference both give the stored language.
C30_DefaultsDiffer ==
    [][\A rid \in {nextReq} : \A userId \in LangUserIds :
         /\ SendsWithoutTarget(userId)
            => pending'[rid].grpcRequest.target_language
                 = IF userId \in DOMAIN userLanguages THEN userLanguages[userId] ELSE es
         /\ (Answers(rid) /\ Answer(rid)'.op = "GetLanguage"
             /\ Answer(rid)'.body.userId = userId)
            => Answer(rid)'.body.language
                 = IF userId \in DOMAIN userLanguages THEN userLanguages[userId] ELSE en]_vars

\* u1 has no preference: its language was reported as "en" and its request
\* without targetLanguage was served in "es".
C30_Witness ==
    /\ u1 \notin DOMAIN userLanguages
    /\ \E r1, r2 \in DOMAIN out :
         /\ out[r1][1].op = "GetLanguage" /\ out[r1][1].body.userId = u1
         /\ out[r1][1].body.language = en
         /\ out[r2][1].op \in SendOps /\ out[r2][1].status = 200
         /\ EchoedLanguage(out[r2][1]) = es
    /\ \A i \in 1 .. Len(chatHistory) : chatHistory[i].userId = u1

====
